---- MODULE Spec2Model ----
(***************************************************************************)
(* Model of the lab agent's self-update engine and command router.         *)
(*                                                                         *)
(*   - the Install Supervisor (src/restart_agent_service.py, main): the    *)
(*     poll loop over restart.flag, one action per step of a cycle;        *)
(*   - the agent process (src/main.py): main(), check_updates(),           *)
(*     download_update(), register_computer();                             *)
(*   - the command router (src/main.py): command_callback(),               *)
(*     process_command(), send_command_result().                           *)
(*                                                                         *)
(* The two processes share the files of UPDATER_DIR: restart.flag (the     *)
(* ticket), agent_new.zip (the package), version.txt (the version marker), *)
(* the directory update/ (staging) and the program files (live tree).      *)
(***************************************************************************)
EXTENDS Naturals, Sequences, FiniteSets, TLC

VARIABLES
    \* ---- files of UPDATER_DIR
    flag,        \* restart.flag: NoFile, or its content ("" while being written)
    zip,         \* agent_new.zip: a record [kind, ver]
    live,        \* live tree: file name -> content or NoFile
    staging,     \* update/: file name -> content or NoFile
    config,      \* agent_config.json holds computer_id and room_id
    backup,      \* the files held by the newest backup_<timestamp> directory
    \* ---- controller
    latest,      \* latest_version answered by GET /api/agent/version
    \* ---- Install Supervisor process
    supPc,       \* position in main()'s loop body
    target,      \* target_version read from the ticket
    \* ---- history of the current install cycle
    preLive,     \* the live tree when the cycle started
    stoppedOk,   \* nssm stop succeeded in this cycle and no start succeeded since
    cycBackup,   \* "none" | "ok" | "failed": create_backup() in this cycle
    promoted,    \* apply_update_safely() returned True in this cycle
    outcome,     \* how the cycle ended, until the next poll
    starts,      \* nssm start commands run in this cycle
    gaveUp,      \* a cycle that promoted ended with its last nssm start failed,
                 \* and no start has succeeded since
    \* ---- agent process
    agentPc,     \* main thread: down | check | register | serving | exited
    cmdPc,       \* command thread: none | idle | decode | process | update | report | ack
                 \*                 | dead | stopped | returned
    cuPc,        \* check_updates(): idle | download | downloaded | flagOpen | exit
    cuTarget,    \* server_version held by the running check_updates()
    hbPc,        \* heartbeat thread: none | send | sleep | ended
    lastStatus,  \* the last send_status_update: none | sent | failed
    cmdRunning,  \* command_running[0], the flag start_command_listener polls
    hbRunning,   \* metrics_running[0], the flag metrics_heartbeat polls
    conn,        \* the command thread's broker connection: none | open | closed | lost
    \* ---- command router
    cur,         \* the delivery handed to command_callback: a record, or NoDelivery
    acked,       \* number of basic_ack calls for cur
    reported,    \* number of CommandResult posts attempted for cur
    returned,    \* process_command has returned for cur
    pending,     \* what the handler left for send_command_result: none | output | error
    resultText,  \* the output or error string left by the handler, as its fragments
    handler,     \* the branch of process_command that ran for cur, or "none"
    sent,        \* the result fields of the last CommandResult posted for cur
    \* ---- hosts file
    hosts,       \* content of the hosts file, as a sequence of text fragments
    lastCall,    \* the last block_website / remove_website_block call and its result
    prevCall,    \* the call before it
    \* ---- Updater / Extractor (src/update_system)
    tempDir,     \* update_temp/: file name -> content or NoFile
    updPc,       \* perform_update: idle | staged
    lastStaged,  \* the package extract_update last extracted
    \* ---- Updater: manifest and update check (src/update_system/updater.py)
    tree,        \* the updater's directory: path -> content, <<>> when absent
    essential,   \* the essential application files of _check_first_run exist
    isFirstRun,  \* self.is_first_run of the constructed Updater
    manifest,    \* the table the last create_file_hash_table returned
    scanned,     \* the application files as that scan found them
    failed,      \* the paths whose read failed in that scan
    changed,     \* how many application files that scan found changed since the one before
    checkResult, \* what the last check_for_updates returned
    performed,   \* the last perform_update: what it returned and what was done
    \* ---- MetricsCollector (src/lab_agent_core/metrics_collector.py)
    mcRunning,   \* self.running
    mcPc,        \* heartbeat thread: send | sleep | ended
    mcStop,      \* the thread calling stop(): no | offline | returned
    mcLog        \* the statuses published, with a mark where stop() returned

fsVars     == <<flag, zip, live, staging, config, backup, latest>>
supVars    == <<supPc, target, preLive, stoppedOk, cycBackup, promoted, outcome, starts, gaveUp>>
hbVars     == <<hbPc, lastStatus>>
stopVars   == <<cmdRunning, hbRunning, conn>>
agentVars  == <<agentPc, cmdPc, cuPc, cuTarget, hbVars, stopVars>>
routerVars == <<cur, acked, reported, returned, pending, resultText, handler, sent>>
hostsVars  == <<hosts, lastCall, prevCall>>
manifestVars == <<tree, essential, isFirstRun, manifest, scanned, failed, changed,
                  checkResult>>
metricsVars == <<mcRunning, mcPc, mcStop, mcLog>>
updaterVars == <<tempDir, updPc, lastStaged, performed, manifestVars, metricsVars>>
vars       == <<fsVars, supVars, agentVars, routerVars, hostsVars, updaterVars>>

----------------------------------------------------------------------------
(* Files and packages *)

NoFile == "<absent>"

\* Files of UPDATER_DIR that a package can carry; lib/util.py is in a subdirectory.
Names == {"main.py", "version.txt", "lib/util.py"}

TopLevel(n) == n \in {"main.py", "version.txt"}

\* The version the installation starts with, and the versions the controller publishes.
InstalledVersion == "1"
Versions == {"1", "2"}
\* The value of a version.txt shipped inside a package.
PackagedMarker == "0"

NoZip == [kind |-> "absent", ver |-> ""]

\* The bytes a download can leave at agent_new.zip.
\*   withMarker: an archive of main.py and a version.txt
\*   withSubdir: an archive of main.py and lib/util.py
\*   noAnchor: an archive without main.py
\*   badCrc:   an archive whose directory lists main.py but whose data is damaged
\*   garbage:  bytes that are no archive;   empty: a file of 0 bytes
\*   traversal: an archive of main.py and an entry named ../version.txt
ZipKinds == {"withMarker", "withSubdir", "noAnchor", "badCrc", "garbage", "empty",
             "traversal"}

\* zipfile.ZipFile(path) opens without BadZipFile.
WellFormed(z) == z.kind \in {"withMarker", "withSubdir", "noAnchor", "badCrc", "traversal"}

\* The entry name with a parent-directory component.
TraversalName == "../version.txt"

\* ZipFile.extractall -> _extract_member: the components "", "." and ".." are
\* dropped from the entry name before it is joined to the target directory.
ExtractPath(e) == IF e = TraversalName THEN "version.txt" ELSE e

\* The file of UPDATER_DIR that a path relative to update/ denotes when it
\* leaves update/ through its parent, NoFile for a path that stays inside.
OutsideRoot(p) == IF p = TraversalName THEN "version.txt" ELSE NoFile

\* The entries of the archive: file name -> content (NoFile when not an entry).
Entries(z) ==
    [n \in Names |->
        CASE z.kind = "badCrc" ->
                 IF n = "main.py" THEN z.ver ELSE NoFile
          [] z.kind = "withMarker" ->
                 IF n = "main.py" THEN z.ver
                 ELSE IF n = "version.txt" THEN PackagedMarker ELSE NoFile
          [] z.kind = "withSubdir" ->
                 IF n \in {"main.py", "lib/util.py"} THEN z.ver ELSE NoFile
          [] z.kind = "noAnchor" ->
                 IF n = "lib/util.py" THEN z.ver ELSE NoFile
          [] z.kind = "traversal" ->
                 IF n = "main.py" THEN z.ver
                 ELSE IF n = ExtractPath(TraversalName) THEN PackagedMarker ELSE NoFile
          [] OTHER -> NoFile]

\* ZipFile.namelist(): the entry names as the archive stores them.
NameList(z) ==
    IF z.kind = "traversal" THEN {"main.py", TraversalName}
    ELSE {n \in Names : Entries(z)[n] # NoFile}

\* The files of UPDATER_DIR, outside update/, that extracting the archive
\* writes: those an entry's extraction path denotes through the parent of update/.
ExtractedOutside(lv, z) ==
    [n \in Names |->
        IF \E e \in NameList(z) : OutsideRoot(ExtractPath(e)) = n
          THEN PackagedMarker ELSE lv[n]]

EmptyDir == [n \in Names |-> NoFile]

\* The live tree the installer leaves: main.py and version.txt of version 1.
InitialLive == [n \in Names |-> IF n = "lib/util.py" THEN NoFile ELSE InstalledVersion]

\* str.strip() on the strings of the model: a padded version loses its padding.
Strip(s) == IF s = " 2 " THEN "2" ELSE s

----------------------------------------------------------------------------
(* The OS service (nssm) hosting the agent process *)

AgentAlive == agentPc \in {"check", "register", "serving"}

\* No CommandResult was posted for the delivery.
NotSent == {"<nothing posted>"}

NoDelivery == [body |-> "none", type |-> "", id |-> "", exchange |-> "", key |-> ""]

\* The process holds no delivery.
RouterReset ==
    /\ cur' = NoDelivery
    /\ acked' = 0
    /\ reported' = 0
    /\ returned' = FALSE
    /\ pending' = "none"
    /\ resultText' = <<>>
    /\ handler' = "none"
    /\ sent' = NotSent

\* The flags as main() creates them (lines 1338-1339); no connection yet.
StopReset ==
    /\ cmdRunning' = TRUE
    /\ hbRunning' = TRUE
    /\ conn' = "none"

\* nssm stop succeeded: the agent process and all its threads are gone.
AgentKilled ==
    /\ agentPc' = "down"
    /\ cmdPc' = "none"
    /\ cuPc' = "idle"
    /\ cuTarget' = ""
    /\ hbPc' = "none"
    /\ lastStatus' = "none"
    /\ StopReset
    /\ RouterReset

\* nssm start succeeded: a new agent process runs main() from its first line.
\* With the agent process alive the command starts nothing.
AgentLaunched ==
    IF AgentAlive
      THEN UNCHANGED <<agentVars, routerVars>>
      ELSE /\ agentPc' = "check"
           /\ cmdPc' = "none"
           /\ cuPc' = "idle"
           /\ cuTarget' = ""
           /\ hbPc' = "none"
           /\ lastStatus' = "none"
           /\ StopReset
           /\ RouterReset

----------------------------------------------------------------------------
(* Install Supervisor: restart_agent_service.py *)

\* validate_zip_file without its namelist() test.
validate_zip_file_any_archive(z) == WellFormed(z)

\* validate_zip_file: the archive opens (the result of testzip() is dropped)
\* and "main.py" is in namelist().
validate_zip_file(z) == WellFormed(z) /\ Entries(z)["main.py"] # NoFile

\* extractall() succeeds: the archive opens and every entry's data is intact.
Extractable(z) == WellFormed(z) /\ z.kind # "badCrc"

BackupNames == {"main.py", "version.txt", "agent_config.json"}

\* create_backup: the important files that exist are copied into a new
\* backup_<timestamp> directory.  Nothing in the program reads a backup again,
\* so the model keeps which files the newest backup holds, not their bytes.
BackupCopy == {n \in BackupNames : IF n = "agent_config.json" THEN config # NoFile
                                                              ELSE live[n] # NoFile}

\* The files apply_update_safely moves: os.listdir(EXTRACT_DIR) entries that are files.
StagedTop(st) == {n \in Names : TopLevel(n) /\ st[n] # NoFile}

\* Live tree and staging after the files of S were moved (remove dst, shutil.move).
MovedLive(lv, st, S) == [n \in Names |-> IF n \in S THEN st[n] ELSE lv[n]]
MovedStaging(st, S) == [n \in Names |-> IF n \in S THEN NoFile ELSE st[n]]

\* while True: if os.path.exists(FLAG_FILE): read target_version (lines 166-178).
SupPoll ==
    /\ supPc = "poll"
    /\ \/ /\ flag = NoFile
          /\ UNCHANGED <<flag, supVars>>
       \/ /\ flag # NoFile
          /\ target' = Strip(flag)
          /\ preLive' = live
          /\ stoppedOk' = FALSE
          /\ cycBackup' = "none"
          /\ promoted' = FALSE
          /\ supPc' = "validate"
          /\ UNCHANGED <<flag, outcome>>
       \/ /\ flag # NoFile              \* open/read raises: os.remove(FLAG_FILE); continue
          /\ flag' = NoFile
          /\ preLive' = live
          /\ stoppedOk' = FALSE
          /\ cycBackup' = "none"
          /\ promoted' = FALSE
          /\ outcome' = "unreadable"
          /\ supPc' = "ended"
          /\ UNCHANGED target
    /\ UNCHANGED <<starts, gaveUp>>
    /\ UNCHANGED <<zip, live, staging, config, backup, latest, agentVars, routerVars>>
    /\ UNCHANGED <<hostsVars, updaterVars>>

\* Lines 180-190: the package must exist and validate, else ticket (and package) go.
SupValidate ==
    /\ supPc = "validate"
    /\ IF zip = NoZip
         THEN /\ flag' = NoFile
              /\ outcome' = "missing"
              /\ supPc' = "ended"
              /\ UNCHANGED zip
         ELSE IF ~validate_zip_file(zip)
                THEN /\ zip' = NoZip
                     /\ flag' = NoFile
                     /\ outcome' = "invalid"
                     /\ supPc' = "ended"
                ELSE /\ supPc' = "backup"
                     /\ UNCHANGED <<flag, zip, outcome>>
    /\ UNCHANGED <<starts, gaveUp>>
    /\ UNCHANGED <<live, staging, config, backup, latest, target, preLive, stoppedOk,
                   cycBackup, promoted, agentVars, routerVars>>
    /\ UNCHANGED <<hostsVars, updaterVars>>

\* Where the cycle goes after create_backup() if a failed backup ended it.
AfterBackupStrict(result) == IF result = "ok" THEN "stop" ELSE "ended"

\* Lines 193-195: "if not backup_path" only logs a warning; nssm stop is next.
AfterBackup(result) == "stop"

\* Lines 192-195: create_backup(); a failed backup only logs a warning.
SupBackup ==
    /\ supPc = "backup"
    /\ \/ /\ backup' = BackupCopy      \* backup_path returned
          /\ cycBackup' = "ok"
       \/ /\ cycBackup' = "failed"      \* an exception: None returned
          /\ UNCHANGED backup
    /\ supPc' = AfterBackup(cycBackup')
    /\ UNCHANGED <<starts, gaveUp>>
    /\ UNCHANGED <<flag, zip, live, staging, config, latest, target, preLive, stoppedOk,
                   promoted, outcome, agentVars, routerVars>>
    /\ UNCHANGED <<hostsVars, updaterVars>>

\* nssm stop run without check=True: a failed stop goes unnoticed.
SupStopUnchecked ==
    /\ supPc = "stop"
    /\ \/ /\ AgentKilled
          /\ stoppedOk' = TRUE
       \/ UNCHANGED <<stoppedOk, agentVars, routerVars>>
    /\ supPc' = "extract"
    /\ UNCHANGED <<starts, gaveUp>>
    /\ UNCHANGED <<fsVars, target, preLive, cycBackup, promoted, outcome>>
    /\ UNCHANGED <<hostsVars, updaterVars>>

\* Line 200: subprocess.run(["nssm", "stop", ...], check=True).
SupStop ==
    /\ supPc = "stop"
    /\ \/ /\ AgentKilled
          /\ stoppedOk' = TRUE
          /\ supPc' = "extract"
          /\ UNCHANGED outcome
       \/ /\ outcome' = "stopFailed"     \* CalledProcessError: except branch, line 261
          /\ supPc' = "handler"
          /\ UNCHANGED <<stoppedOk, agentVars, routerVars>>
    /\ UNCHANGED <<starts, gaveUp>>
    /\ UNCHANGED <<fsVars, target, preLive, cycBackup, promoted>>
    /\ UNCHANGED <<hostsVars, updaterVars>>

\* Lines 207-210, extract_update_safely: rmtree, makedirs, extractall.
SupExtract ==
    /\ supPc = "extract"
    /\ \/ /\ Extractable(zip)
          /\ staging' = Entries(zip)
          /\ live' = ExtractedOutside(live, zip)
          /\ supPc' = "writeVersion"
          /\ UNCHANGED outcome
       \/ /\ \/ UNCHANGED staging        \* rmtree raised
             \/ staging' = EmptyDir      \* extractall raised
          /\ outcome' = "extractFailed"
          /\ supPc' = "abortStart"
          /\ UNCHANGED live
    /\ UNCHANGED <<starts, gaveUp>>
    /\ UNCHANGED <<flag, zip, config, backup, latest, target, preLive, stoppedOk,
                   cycBackup, promoted, agentVars, routerVars>>
    /\ UNCHANGED <<hostsVars, updaterVars>>

\* Lines 214-222: the version marker is written before the files are applied.
SupWriteVersion ==
    /\ supPc = "writeVersion"
    /\ live' = [live EXCEPT !["version.txt"] = target]
    /\ supPc' = "apply"
    /\ UNCHANGED <<starts, gaveUp>>
    /\ UNCHANGED <<flag, zip, staging, config, backup, latest, target, preLive, stoppedOk,
                   cycBackup, promoted, outcome, agentVars, routerVars>>
    /\ UNCHANGED <<hostsVars, updaterVars>>

\* Lines 225-228, apply_update_safely: every top-level file of update/ is moved
\* over the live file of the same name (os.remove(dst), shutil.move); an
\* exception at file f stops the loop after the files of S were moved.
SupApply ==
    /\ supPc = "apply"
    /\ \/ /\ live' = MovedLive(live, staging, StagedTop(staging))
          /\ staging' = MovedStaging(staging, StagedTop(staging))
          /\ promoted' = TRUE
          /\ supPc' = "cleanup"
          /\ UNCHANGED outcome
       \/ \E f \in StagedTop(staging) :
          \E S \in SUBSET (StagedTop(staging) \ {f}) :
             /\ live' = MovedLive(live, staging, S)
             /\ staging' = MovedStaging(staging, S)
             /\ outcome' = "applyFailed"
             /\ supPc' = "abortStart"
             /\ UNCHANGED promoted
    /\ UNCHANGED <<starts, gaveUp>>
    /\ UNCHANGED <<flag, zip, config, backup, latest, target, preLive, stoppedOk,
                   cycBackup, agentVars, routerVars>>
    /\ UNCHANGED <<hostsVars, updaterVars>>

\* Lines 209 and 227: nssm start (check=True), then continue.
SupAbortStart ==
    /\ supPc = "abortStart"
    /\ starts' = starts + 1
    /\ \/ /\ AgentLaunched
          /\ stoppedOk' = FALSE
          /\ gaveUp' = FALSE
          /\ supPc' = "ended"
       \/ /\ supPc' = "handler"          \* CalledProcessError
          /\ UNCHANGED <<stoppedOk, gaveUp, agentVars, routerVars>>
    /\ UNCHANGED <<fsVars, target, preLive, cycBackup, promoted, outcome>>
    /\ UNCHANGED <<hostsVars, updaterVars>>

\* Lines 230-234: os.remove(ZIP_FILE); os.remove(FLAG_FILE).
SupCleanup ==
    /\ supPc = "cleanup"
    /\ \/ /\ zip' = NoZip
          /\ flag' = NoFile
          /\ supPc' = "verify"
          /\ UNCHANGED outcome
       \/ /\ outcome' = "cleanupFailed"  \* the first remove raised: except branch, line 270
          /\ supPc' = "handler"
          /\ UNCHANGED <<zip, flag>>
       \/ /\ zip' = NoZip                \* the second remove raised
          /\ outcome' = "cleanupFailed"
          /\ supPc' = "handler"
          /\ UNCHANGED flag
    /\ UNCHANGED <<starts, gaveUp>>
    /\ UNCHANGED <<live, staging, config, backup, latest, target, preLive, stoppedOk,
                   cycBackup, promoted, agentVars, routerVars>>
    /\ UNCHANGED <<hostsVars, updaterVars>>

\* The cycle without the double-check of lines 236-250.
SupVerifySkipped ==
    /\ supPc = "verify"
    /\ supPc' = "start"
    /\ UNCHANGED <<starts, gaveUp>>
    /\ UNCHANGED <<fsVars, target, preLive, stoppedOk, cycBackup, promoted, outcome,
                   agentVars, routerVars>>
    /\ UNCHANGED <<hostsVars, updaterVars>>

\* Lines 236-250: re-read the version marker and rewrite it when it differs.
SupVerify ==
    /\ supPc = "verify"
    /\ live' = IF Strip(live["version.txt"]) # target
                 THEN [live EXCEPT !["version.txt"] = target]
                 ELSE live
    /\ supPc' = "start"
    /\ UNCHANGED <<starts, gaveUp>>
    /\ UNCHANGED <<flag, zip, staging, config, backup, latest, target, preLive, stoppedOk,
                   cycBackup, promoted, outcome, agentVars, routerVars>>
    /\ UNCHANGED <<hostsVars, updaterVars>>

\* Line 257: nssm start (check=True) at the end of a cycle.
SupStart ==
    /\ supPc = "start"
    /\ starts' = starts + 1
    /\ \/ /\ AgentLaunched
          /\ stoppedOk' = FALSE
          /\ gaveUp' = FALSE
          /\ outcome' = "done"
          /\ supPc' = "ended"
       \/ /\ outcome' = "startFailed"    \* CalledProcessError
          /\ supPc' = "handler"
          /\ UNCHANGED <<stoppedOk, gaveUp, agentVars, routerVars>>
    /\ UNCHANGED <<fsVars, target, preLive, cycBackup, promoted>>
    /\ UNCHANGED <<hostsVars, updaterVars>>

\* The except branches with the clean-up of the success path copied into them.
SupHandlerCleansUp ==
    /\ supPc = "handler"
    /\ starts' = starts + 1
    /\ \/ /\ AgentLaunched
          /\ stoppedOk' = IF AgentAlive THEN stoppedOk ELSE FALSE
          /\ gaveUp' = FALSE
       \/ /\ gaveUp' = (gaveUp \/ promoted)   \* logged: manual intervention required
          /\ UNCHANGED <<stoppedOk, agentVars, routerVars>>
    /\ supPc' = "ended"
    /\ flag' = NoFile
    /\ UNCHANGED <<zip, live, staging, config, backup, latest, target, preLive,
                   cycBackup, promoted, outcome>>
    /\ UNCHANGED <<hostsVars, updaterVars>>

\* Lines 261-278: both except branches try nssm start once more and swallow its failure.
SupHandler ==
    /\ supPc = "handler"
    /\ starts' = starts + 1
    /\ \/ /\ AgentLaunched
          /\ stoppedOk' = IF AgentAlive THEN stoppedOk ELSE FALSE
          /\ gaveUp' = FALSE
       \/ /\ gaveUp' = (gaveUp \/ promoted)   \* logged: manual intervention required
          /\ UNCHANGED <<stoppedOk, agentVars, routerVars>>
    /\ supPc' = "ended"
    /\ UNCHANGED <<fsVars, target, preLive, cycBackup, promoted, outcome>>
    /\ UNCHANGED <<hostsVars, updaterVars>>

\* Line 280 and the continue statements: back to the head of the loop.  The
\* history of the cycle that ended is dropped.
SupNextPoll ==
    /\ supPc = "ended"
    /\ supPc' = "poll"
    /\ target' = ""
    /\ preLive' = InitialLive
    /\ stoppedOk' = FALSE
    /\ cycBackup' = "none"
    /\ promoted' = FALSE
    /\ outcome' = "none"
    /\ starts' = 0
    /\ UNCHANGED <<fsVars, gaveUp, agentVars, routerVars>>
    /\ UNCHANGED <<hostsVars, updaterVars>>

Supervisor ==
    \/ SupPoll \/ SupValidate \/ SupBackup \/ SupStop \/ SupExtract \/ SupWriteVersion
    \/ SupApply \/ SupAbortStart \/ SupCleanup \/ SupVerify \/ SupStart \/ SupHandler
    \/ SupNextPoll

----------------------------------------------------------------------------
(* Agent process: src/main.py *)

\* Which thread runs check_updates(): main() at startup (line 1329) or the
\* command thread inside process_command (line 983).
CuCaller ==
    IF agentPc = "check" THEN "main"
    ELSE IF agentPc = "serving" /\ cmdPc = "update" THEN "cmd"
    ELSE "none"

\* check_updates() returns to its caller: main() goes on to register_computer();
\* process_command sets output = "Update process initiated" (line 984).
CuReturn ==
    /\ cuPc' = "idle"
    /\ cuTarget' = ""
    /\ IF CuCaller = "main"
         THEN /\ agentPc' = "register"
              /\ UNCHANGED <<cmdPc, pending, resultText>>
         ELSE /\ cmdPc' = "report"
              /\ pending' = "output"
              /\ resultText' = <<"Update process initiated">>
              /\ UNCHANGED agentPc

\* Lines 1259-1272: read the version marker, ask the controller, compare.
CuStart ==
    /\ CuCaller # "none"
    /\ cuPc = "idle"
    /\ \/ /\ live["version.txt"] = NoFile            \* no version file: return
          /\ CuReturn
       \/ CuReturn                                    \* the request raised: except, line 1303
       \/ /\ live["version.txt"] # NoFile
          /\ latest = Strip(live["version.txt"])      \* already on the latest version
          /\ CuReturn
       \/ /\ live["version.txt"] # NoFile
          /\ latest # Strip(live["version.txt"])
          /\ cuPc' = "download"
          /\ cuTarget' = latest
          /\ UNCHANGED <<agentPc, cmdPc, pending, resultText>>
    /\ UNCHANGED <<hbVars, stopVars, fsVars, supVars, cur, acked, reported, returned, handler, sent>>
    /\ UNCHANGED <<hostsVars, updaterVars>>

\* download_update(server_version), lines 1202-1251, and line 1277.
CuDownload ==
    /\ CuCaller # "none"
    /\ cuPc = "download"
    /\ \/ /\ CuReturn                                 \* no disk space, status # 200, timeout
          /\ UNCHANGED zip
       \/ /\ CuReturn                                 \* the stream broke after open(ZIP_PATH, "wb")
          /\ \E k \in {"garbage", "empty"} : zip' = [kind |-> k, ver |-> cuTarget]
       \/ /\ \E k \in ZipKinds : zip' = [kind |-> k, ver |-> cuTarget]
          /\ cuPc' = "downloaded"
          /\ UNCHANGED <<agentPc, cmdPc, cuTarget, pending, resultText>>
    /\ UNCHANGED <<hbVars, stopVars, flag, live, staging, config, backup, latest, supVars,
                   cur, acked, reported, returned, handler, sent>>
    /\ UNCHANGED <<hostsVars, updaterVars>>

\* Lines 1281-1295: the file must exist and have a size above 0; then
\* open(RESTART_FLAG_PATH, "w") creates the ticket, still empty.
CuCreateFlag ==
    /\ CuCaller # "none"
    /\ cuPc = "downloaded"
    /\ IF zip = NoZip
         THEN /\ CuReturn
              /\ UNCHANGED <<zip, flag>>
         ELSE IF zip.kind = "empty"
                THEN /\ zip' = NoZip
                     /\ CuReturn
                     /\ UNCHANGED flag
                ELSE /\ flag' = ""
                     /\ cuPc' = "flagOpen"
                     /\ UNCHANGED <<zip, agentPc, cmdPc, cuTarget, pending, resultText>>
    /\ UNCHANGED <<hbVars, stopVars, live, staging, config, backup, latest, supVars,
                   cur, acked, reported, returned, handler, sent>>
    /\ UNCHANGED <<hostsVars, updaterVars>>

\* Line 1296: f.write(server_version), flushed when the with block closes the file.
\* A ticket removed in between was unlinked: the write does not bring it back.
CuWriteFlag ==
    /\ CuCaller # "none"
    /\ cuPc = "flagOpen"
    /\ flag' = IF flag = NoFile THEN NoFile ELSE cuTarget
    /\ cuPc' = "exit"
    /\ UNCHANGED <<hbVars, stopVars, zip, live, staging, config, backup, latest, supVars,
                   agentPc, cmdPc, cuTarget, routerVars>>
    /\ UNCHANGED <<hostsVars, updaterVars>>

\* Line 1300: sys.exit(0) raises SystemExit, which no "except Exception" catches.
\* In main() the process exits; in the command thread it unwinds command_callback,
\* process_data_events and start_command_listener, and only that thread ends.
CuExit ==
    /\ CuCaller # "none"
    /\ cuPc = "exit"
    /\ cuPc' = "idle"
    /\ cuTarget' = ""
    /\ IF CuCaller = "main"
         THEN /\ agentPc' = "exited"
              /\ UNCHANGED cmdPc
         ELSE /\ cmdPc' = "dead"
              /\ UNCHANGED agentPc
    /\ UNCHANGED <<hbVars, stopVars, fsVars, supVars, routerVars>>
    /\ UNCHANGED <<hostsVars, updaterVars>>

\* main(), lines 1331-1347: register_computer(), then the threads are started.
AgentRegister ==
    /\ agentPc = "register"
    /\ \/ /\ config # NoFile                     \* already registered
          /\ agentPc' = "serving"
          /\ cmdPc' = "idle"
          /\ hbPc' = "send"
          /\ conn' = "open"
          /\ UNCHANGED config
       \/ /\ config = NoFile                     \* POST /api/agents/register answered
          /\ config' = "ids"
          /\ agentPc' = "serving"
          /\ cmdPc' = "idle"
          /\ hbPc' = "send"
          /\ conn' = "open"
       \/ /\ config = NoFile                     \* the request failed: sys.exit(1)
          /\ agentPc' = "exited"
          /\ UNCHANGED <<config, cmdPc, hbPc, conn>>
    /\ UNCHANGED <<flag, zip, live, staging, backup, latest, supVars, cuPc, cuTarget,
                   lastStatus, cmdRunning, hbRunning, routerVars>>
    /\ UNCHANGED <<hostsVars, updaterVars>>

\* The controller publishes the next version.
ControllerPublish ==
    /\ latest = "1"
    /\ latest' = "2"
    /\ UNCHANGED <<flag, zip, live, staging, config, backup, supVars, agentVars, routerVars>>
    /\ UNCHANGED <<hostsVars, updaterVars>>

----------------------------------------------------------------------------
(* Command router: command_callback, process_command, send_command_result *)

\* The identifiers of config.json: the queue is named by the MAC address
\* (line 1147), the room is the one the agent was registered in.
MacAddress == "mac1"
RoomId == "r1"
QueueName == MacAddress
\* f"room.{room_id}" on the rooms of the model.
RoomKey(room) == IF room = "r1" THEN "room.r1" ELSE "room.r2"

\* A publication: the exchange and routing key the publisher chose, and the body.
\* Msg publishes to the default exchange ("") with the queue name as routing key.
Pub(x, k, b, t, i) == [body |-> b, type |-> t, id |-> i, exchange |-> x, key |-> k]
Msg(b, t, i) == Pub("", QueueName, b, t, i)

\* Bindings treated as if cmd.direct were a fanout exchange.
RoutedIgnoringRoomKey(m) ==
    \/ m.exchange = "" /\ m.key = QueueName
    \/ m.exchange = "cmd.direct"
    \/ m.exchange = "broadcast.fanout"

\* The bindings of the queue, lines 1149-1166: every queue is bound to the
\* default exchange by its name; queue_bind to cmd.direct with room.<room_id>;
\* queue_bind to the fanout exchange, which ignores the routing key.
Routed(m) ==
    \/ m.exchange = "" /\ m.key = QueueName
    \/ m.exchange = "cmd.direct" /\ m.key = RoomKey(RoomId)
    \/ m.exchange = "broadcast.fanout"

\* Deliveries: a body that is no JSON, JSON that is no object, and command
\* envelopes by type and command_id ("<number>" stands for a type that is no string).
CommandTypes ==
    {"UPDATE", " update ", "Update", "FIREWALL_ON", "firewall_on", "FIREWALL_OFF",
     " Firewall_Off", "FOO", " foo", "<number>"}
CommandIds == {"", "c1"}
\* What controllers publish besides: commands to cmd.direct for this room and
\* for another one, broadcasts, and commands for another machine's queue.
Exchanges == {"", "cmd.direct", "broadcast.fanout"}
RoutingKeys == {QueueName, "mac2", RoomKey(RoomId), RoomKey("r2")}
Publications ==
    {Pub(x, k, "dict", t, "c1") : x \in Exchanges, k \in RoutingKeys,
                                  t \in {"FIREWALL_ON", "FOO"}}
AllMessages ==
    {Msg("notjson", "", ""), Msg("nondict", "", "")}
        \cup {Msg("dict", t, i) : t \in CommandTypes, i \in CommandIds}
        \cup Publications
\* The traffic of the update engine's specification: UPDATE commands only.
UpdateCommands == {Msg("dict", "UPDATE", "c1")}

\* type.strip().upper() on the type strings of the model.
\* type.upper() alone: the padding of the received string stays.
TypeUpperWithoutStrip(t) ==
    CASE t \in {"UPDATE", "Update"} -> "UPDATE"
      [] t = " update " -> " UPDATE "
      [] t \in {"FIREWALL_ON", "firewall_on"} -> "FIREWALL_ON"
      [] t = "FIREWALL_OFF" -> "FIREWALL_OFF"
      [] t = " Firewall_Off" -> " FIREWALL_OFF"
      [] t = "FOO" -> "FOO"
      [] t = " foo" -> " FOO"
      [] OTHER -> t

TypeUpper(t) ==
    CASE t \in {"UPDATE", " update ", "Update"} -> "UPDATE"
      [] t \in {"FIREWALL_ON", "firewall_on"} -> "FIREWALL_ON"
      [] t \in {"FIREWALL_OFF", " Firewall_Off"} -> "FIREWALL_OFF"
      [] t \in {"FOO", " foo"} -> "FOO"
      [] OTHER -> t

\* The if/elif chain of process_command, lines 979-1074: the function called
\* for a normalized type, "unknown" for the final else.
HandlerOf(u) ==
    CASE u = "UPDATE" -> "check_updates"
      [] u = "FIREWALL_ON" -> "open_firewall"
      [] u = "FIREWALL_OFF" -> "close_firewall"
      [] u = "BLOCK_WEBSITE" -> "block_website"
      [] u = "UNBLOCK_WEBSITE" -> "remove_website_block"
      [] u = "DOWNLOAD_INSTALLER" -> "download_installer"
      [] u = "SCREENSHOT" -> "capture_and_send_screenshot"
      [] u = "CUSTOM" -> "execute_custom_command"
      [] OTHER -> "unknown"

\* The message a handler returns, or str(e) of the exception it raised.
HandlerMessage == <<"<handler message>">>
\* The empty string, e.g. the stdout of a command that printed nothing.
EmptyText == <<"">>

\* result_data with the output added whenever it is truthy.
ResultFieldsByTruth(success, text) ==
    IF success THEN (IF text # EmptyText THEN {"output"} ELSE {})
               ELSE (IF text # EmptyText THEN {"error"} ELSE {})

\* send_command_result(command_id, error if not success else None,
\* output if success else None), lines 369-377: "if error" adds the error,
\* "if output is not None and not error" adds the output.
ResultFields(success, text) ==
    IF success THEN {"output"}
               ELSE (IF text # EmptyText THEN {"error"} ELSE {})

\* The error text with the normalized type in place of the received one.
UnknownTypeErrorNormalized(t) == <<"Unknown command type: ", TypeUpper(t)>>

\* Line 1074: f"Unknown command type: {type}", with the type as received.
UnknownTypeError(t) == <<"Unknown command type: ", t>>

\* basic_consume with auto_ack=True: the delivery is acknowledged when handed over.
RouterDeliverAutoAck(M) ==
    /\ agentPc = "serving"
    /\ cmdPc = "idle"
    /\ \E m \in M : Routed(m) /\ cur' = m
    /\ acked' = 1
    /\ reported' = 0
    /\ returned' = FALSE
    /\ pending' = "none"
    /\ resultText' = <<>>
    /\ handler' = "none"
    /\ sent' = NotSent
    /\ cmdPc' = "decode"
    /\ UNCHANGED <<hbVars, stopVars, fsVars, supVars, agentPc, cuPc, cuTarget>>
    /\ UNCHANGED <<hostsVars, updaterVars>>

\* basic_consume(auto_ack=False): pika hands the next delivery to command_callback.
RouterDeliver(M) ==
    /\ agentPc = "serving"
    /\ cmdPc = "idle"
    /\ \E m \in M : Routed(m) /\ cur' = m
    /\ acked' = 0
    /\ reported' = 0
    /\ returned' = FALSE
    /\ pending' = "none"
    /\ resultText' = <<>>
    /\ handler' = "none"
    /\ sent' = NotSent
    /\ cmdPc' = "decode"
    /\ UNCHANGED <<hbVars, stopVars, fsVars, supVars, agentPc, cuPc, cuTarget>>
    /\ UNCHANGED <<hostsVars, updaterVars>>

\* command_callback without its except branches: a body that does not decode
\* unwinds the callback and ends the command thread.
RouterDecodeUncaught ==
    /\ agentPc = "serving"
    /\ cmdPc = "decode"
    /\ cmdPc' = IF cur.body = "dict" THEN "process" ELSE "dead"
    /\ UNCHANGED <<fsVars, supVars, agentPc, cuPc, cuTarget, hbVars, stopVars, routerVars>>
    /\ UNCHANGED <<hostsVars, updaterVars>>

\* Lines 1100-1118: json.loads and message.get; both failures end in the
\* except branches (lines 1122-1125), which fall through to basic_ack.
RouterDecode ==
    /\ agentPc = "serving"
    /\ cmdPc = "decode"
    /\ cmdPc' = IF cur.body = "dict" THEN "process" ELSE "ack"
    /\ UNCHANGED <<hbVars, stopVars, fsVars, supVars, agentPc, cuPc, cuTarget, routerVars>>
    /\ UNCHANGED <<hostsVars, updaterVars>>

\* process_command up to the result, lines 958-1077.
RouterProcess ==
    /\ agentPc = "serving"
    /\ cmdPc = "process"
    /\ \/ /\ cur.type = "<number>"               \* len(type) raises: outer except, line 1088
          /\ reported' = IF cur.id # "" THEN reported + 1 ELSE reported
          /\ sent' = IF cur.id # "" THEN ResultFields(FALSE, HandlerMessage) ELSE sent
          /\ returned' = TRUE
          /\ cmdPc' = "ack"
          /\ UNCHANGED <<pending, resultText, handler>>
       \/ /\ cur.type # "<number>"
          /\ HandlerOf(TypeUpper(cur.type)) = "check_updates"   \* runs in this thread
          /\ handler' = "check_updates"
          /\ cmdPc' = "update"
          /\ UNCHANGED <<reported, returned, pending, resultText, sent>>
       \/ /\ cur.type # "<number>"          \* (True, out), (False, err) or an exception
          /\ HandlerOf(TypeUpper(cur.type)) \notin {"check_updates", "unknown"}
          /\ handler' = HandlerOf(TypeUpper(cur.type))
          /\ \/ /\ pending' = "output"         \* the message or the command's stdout
                /\ resultText' \in {HandlerMessage, EmptyText}
             \/ /\ pending' = "error"
                /\ resultText' = HandlerMessage
          /\ cmdPc' = "report"
          /\ UNCHANGED <<reported, returned, sent>>
       \/ /\ cur.type # "<number>"
          /\ HandlerOf(TypeUpper(cur.type)) = "unknown"
          /\ handler' = "unknown"
          /\ pending' = "error"                  \* Unknown command type
          /\ resultText' = UnknownTypeError(cur.type)
          /\ cmdPc' = "report"
          /\ UNCHANGED <<reported, returned, sent>>
    /\ UNCHANGED <<hbVars, stopVars, fsVars, supVars, agentPc, cuPc, cuTarget, cur, acked>>
    /\ UNCHANGED <<hostsVars, updaterVars>>

\* Lines 1083-1087: send_command_result posts unless command_id is empty;
\* it swallows its own exceptions, and process_command returns.
RouterReport ==
    /\ agentPc = "serving"
    /\ cmdPc = "report"
    /\ reported' = IF cur.id # "" THEN reported + 1 ELSE reported
    /\ sent' = IF cur.id # "" THEN ResultFields(pending = "output", resultText) ELSE sent
    /\ returned' = TRUE
    /\ cmdPc' = "ack"
    /\ UNCHANGED <<hbVars, stopVars, fsVars, supVars, agentPc, cuPc, cuTarget, cur, acked,
                   pending, resultText, handler>>
    /\ UNCHANGED <<hostsVars, updaterVars>>

\* Line 1126: ch.basic_ack, the last statement of command_callback.
RouterAck ==
    /\ agentPc = "serving"
    /\ cmdPc = "ack"
    /\ acked' = acked + 1
    /\ IF cmdRunning
         THEN cmdPc' = "idle" /\ UNCHANGED conn
         ELSE cmdPc' = "returned" /\ conn' = "closed"
    /\ UNCHANGED <<hbVars, cmdRunning, hbRunning, fsVars, supVars, agentPc, cuPc, cuTarget,
                   cur, reported, returned, pending, resultText, handler, sent>>
    /\ UNCHANGED <<hostsVars, updaterVars>>

\* Lines 1182-1186: process_data_events(time_limit=1.0) returns without a
\* delivery; running_flag[0] is False, the loop ends and connection.close() runs.
\* (With the flag set the next poll begins, which changes nothing.)
ListenerPollEnds ==
    /\ agentPc = "serving"
    /\ cmdPc = "idle"
    /\ ~cmdRunning
    /\ cmdPc' = "returned"
    /\ conn' = "closed"
    /\ UNCHANGED <<hbVars, cmdRunning, hbRunning, fsVars, supVars, agentPc, cuPc, cuTarget,
                   routerVars>>
    /\ UNCHANGED <<hostsVars, updaterVars>>

\* The owner of the flag clears it: command_running[0] = False
\* (CommandListener.stop sets self.running = False).
StopCommandListener ==
    /\ agentPc = "serving"
    /\ cmdRunning
    /\ cmdRunning' = FALSE
    /\ UNCHANGED <<hbVars, hbRunning, conn, fsVars, supVars, agentPc, cmdPc, cuPc, cuTarget,
                   routerVars>>
    /\ UNCHANGED <<hostsVars, updaterVars>>

\* metrics_running[0] = False (MetricsCollector.stop sets self.running = False).
StopHeartbeat ==
    /\ agentPc = "serving"
    /\ hbRunning
    /\ hbRunning' = FALSE
    /\ UNCHANGED <<hbVars, cmdRunning, conn, fsVars, supVars, agentPc, cmdPc, cuPc, cuTarget,
                   routerVars>>
    /\ UNCHANGED <<hostsVars, updaterVars>>

\* Lines 1182-1190: process_data_events (or, before the loop, the connection
\* set-up) raises a broker error; the except branch around the whole function
\* logs it and start_command_listener returns, ending the command thread.
RouterConnectionLost ==
    /\ agentPc = "serving"
    /\ cmdPc = "idle"
    /\ cmdPc' = "stopped"
    /\ conn' = "lost"
    /\ UNCHANGED <<fsVars, supVars, agentPc, cuPc, cuTarget, hbVars, cmdRunning, hbRunning,
                   routerVars>>
    /\ UNCHANGED <<hostsVars, updaterVars>>

\* metrics_heartbeat, lines 217 and 222: send_status_update publishes the
\* status; it catches every exception of connecting and publishing and
\* returns False.
HeartbeatSend ==
    /\ agentPc = "serving"
    /\ hbPc = "send"
    /\ \E r \in {"sent", "failed"} : lastStatus' = r
    /\ hbPc' = IF hbRunning THEN "sleep" ELSE "ended"
    /\ UNCHANGED <<fsVars, supVars, agentPc, cmdPc, cuPc, cuTarget, stopVars, routerVars>>
    /\ UNCHANGED <<hostsVars, updaterVars>>

\* metrics_heartbeat, lines 218-220: time.sleep(interval) is over.
HeartbeatWake ==
    /\ agentPc = "serving"
    /\ hbPc = "sleep"
    /\ hbPc' = IF hbRunning THEN "send" ELSE "ended"
    /\ UNCHANGED <<fsVars, supVars, agentPc, cmdPc, cuPc, cuTarget, lastStatus, stopVars,
                   routerVars>>
    /\ UNCHANGED <<hostsVars, updaterVars>>

Heartbeat == HeartbeatSend \/ HeartbeatWake

Agent ==
    \/ CuStart \/ CuDownload \/ CuCreateFlag \/ CuWriteFlag \/ CuExit \/ AgentRegister

Router(M) ==
    \/ RouterDeliver(M) \/ RouterDecode \/ RouterProcess \/ RouterReport \/ RouterAck

----------------------------------------------------------------------------
(* Hosts file: block_website and remove_website_block (src/main.py) *)

\* Text is a sequence of fragments.  The urls of the model: "a.co" is a proper
\* prefix of "a.com".
UrlCo == <<"a", ".co">>
UrlCom == <<"a", ".co", "m">>
UrlOrg == <<"b", ".org">>
Urls == {UrlCo, UrlCom, UrlOrg}

\* The params.urls lists of the commands.
UrlLists == {<<u>> : u \in Urls} \cup {<<UrlCo, UrlCo>>, <<UrlCom, UrlOrg>>}

\* f"127.0.0.1 {website}" and the line block_website writes.
Entry(w) == <<"127.0.0.1 ">> \o w
EntryLine(w) == Entry(w) \o <<"\n">>

\* Python's "needle in hay" on text.
Contains(needle, hay) ==
    \E i \in 0..Len(hay) :
        /\ i + Len(needle) <= Len(hay)
        /\ SubSeq(hay, i + 1, i + Len(needle)) = needle

\* Index of the first "\n" of c, or Len(c) when there is none.
RECURSIVE LineEnd(_, _)
LineEnd(c, i) == IF i >= Len(c) \/ c[i] = "\n" THEN i ELSE LineEnd(c, i + 1)

\* file.readlines(): the lines of c, each with its line end.
RECURSIVE ReadLines(_)
ReadLines(c) ==
    IF c = <<>> THEN <<>>
    ELSE <<SubSeq(c, 1, LineEnd(c, 1))>> \o ReadLines(SubSeq(c, LineEnd(c, 1) + 1, Len(c)))

\* The concatenation of a sequence of texts.
RECURSIVE Concat(_)
Concat(ls) == IF ls = <<>> THEN <<>> ELSE Head(ls) \o Concat(Tail(ls))

\* The websites of the list, in order, whose entry text is not in content.
RECURSIVE ToBlock(_, _)
ToBlock(urls, content) ==
    IF urls = <<>> THEN <<>>
    ELSE (IF Contains(Entry(Head(urls)), content) THEN <<>> ELSE <<Head(urls)>>)
             \o ToBlock(Tail(urls), content)

\* block_website, lines 307-314: the content is read once; every website whose
\* entry text is not in it gets a line appended at the end of the file.
BlockedHosts(urls, content) ==
    content \o Concat([i \in 1..Len(ToBlock(urls, content)) |-> EntryLine(ToBlock(urls, content)[i])])

\* Line 284: the line holds the entry text of one of the websites.
Unblocked(line, urls) == \E i \in 1..Len(urls) : Contains(Entry(urls[i]), line)

\* The lines remove_website_block writes back.
RECURSIVE KeptLines(_, _)
KeptLines(ls, urls) ==
    IF ls = <<>> THEN <<>>
    ELSE (IF Unblocked(Head(ls), urls) THEN <<>> ELSE <<Head(ls)>>) \o KeptLines(Tail(ls), urls)

\* remove_website_block, lines 277-288: readlines, seek(0), write back the
\* lines that hold no entry text of the list, truncate.
UnblockedHosts(urls, content) == Concat(KeptLines(ReadLines(content), urls))

\* BLOCK_WEBSITE: block_website(urls) returns (True, msg).
BlockWebsite(urls) ==
    /\ hosts' = BlockedHosts(urls, hosts)
    /\ lastCall' = [op |-> "BLOCK", urls |-> urls, ok |-> TRUE,
                    msg |-> IF ToBlock(urls, hosts) # <<>> THEN "Successfully blocked websites"
                            ELSE "All websites were already blocked"]
    /\ prevCall' = lastCall
    /\ UNCHANGED <<fsVars, supVars, agentVars, routerVars, updaterVars>>

\* UNBLOCK_WEBSITE: remove_website_block(urls) returns (True, msg).
UnblockWebsite(urls) ==
    /\ hosts' = UnblockedHosts(urls, hosts)
    /\ lastCall' = [op |-> "UNBLOCK", urls |-> urls, ok |-> TRUE,
                    msg |-> IF KeptLines(ReadLines(hosts), urls) # ReadLines(hosts)
                            THEN "Successfully unblocked websites"
                            ELSE "No websites were found to unblock"]
    /\ prevCall' = lastCall
    /\ UNCHANGED <<fsVars, supVars, agentVars, routerVars, updaterVars>>

\* The lines a hosts file holds before the agent edits it, and the number of
\* them in the initial file.
MaxInitialLines == 2
InitialLines ==
    {EntryLine(u) : u \in Urls} \cup {<<"0.0.0.0 ">> \o UrlCo \o <<"\n">>, <<"# hosts", "\n">>}

\* Every file of at most MaxInitialLines such lines, with and without the line
\* end of its last line.
InitialHosts ==
    LET files == {Concat(ls) : ls \in UNION {[1..n -> InitialLines] : n \in 0..MaxInitialLines}}
    IN  files \cup {SubSeq(f, 1, Len(f) - 1) : f \in files \ {<<>>}}

----------------------------------------------------------------------------
(* MetricsCollector: src/lab_agent_core/metrics_collector.py *)

\* The mark in the log of statuses: stop() has returned.
StopReturned == "<stop returned>"

\* The number of log entries after which the heartbeat is followed no further.
MaxLog == 4

\* After start() (lines 81-85): running is set and the heartbeat thread is at
\* its first, unconditional send_status_update("online").
InitCollector ==
    /\ mcRunning = TRUE
    /\ mcPc = "send"
    /\ mcStop = "no"
    /\ mcLog = <<>>

\* send_status_update (lines 40-72) publishes the status, or catches the
\* exception of connecting or publishing and returns False.
Published(log, status) == {Append(log, status), log}

\* heartbeat (lines 74-79) publishes "online": the first send, or the one
\* after "if self.running" was found true; then "while self.running" is tested.
CollectorSend ==
    /\ mcPc = "send"
    /\ mcLog' \in Published(mcLog, "online")
    /\ mcPc' = IF mcRunning THEN "sleep" ELSE "ended"
    /\ UNCHANGED <<mcRunning, mcStop>>
    /\ UNCHANGED <<fsVars, supVars, agentVars, routerVars, hostsVars, tempDir, updPc,
                   lastStaged, performed, manifestVars>>

\* time.sleep(self.interval) is over and "if self.running" is tested (lines
\* 77-78); when it is false the loop test fails next and the thread ends.
CollectorWake ==
    /\ mcPc = "sleep"
    /\ Len(mcLog) < MaxLog
    /\ mcPc' = IF mcRunning THEN "send" ELSE "ended"
    /\ UNCHANGED <<mcRunning, mcStop, mcLog>>
    /\ UNCHANGED <<fsVars, supVars, agentVars, routerVars, hostsVars, tempDir, updPc,
                   lastStaged, performed, manifestVars>>

\* stop(), line 90: self.running = False.
CollectorStopClear ==
    /\ mcStop = "no"
    /\ mcRunning' = FALSE
    /\ mcStop' = "offline"
    /\ UNCHANGED <<mcPc, mcLog>>
    /\ UNCHANGED <<fsVars, supVars, agentVars, routerVars, hostsVars, tempDir, updPc,
                   lastStaged, performed, manifestVars>>

\* stop(), line 91: send_status_update("offline"), and stop() returns.
CollectorStopOffline ==
    /\ mcStop = "offline"
    /\ \E log \in Published(mcLog, "offline") : mcLog' = Append(log, StopReturned)
    /\ mcStop' = "returned"
    /\ UNCHANGED <<mcRunning, mcPc>>
    /\ UNCHANGED <<fsVars, supVars, agentVars, routerVars, hostsVars, tempDir, updPc,
                   lastStaged, performed, manifestVars>>

----------------------------------------------------------------------------
(* Updater and Extractor: src/update_system/updater.py, extractor.py *)

\* perform_update has not run.
Performed(ret, installed, relaunched) ==
    [ret |-> ret, installed |-> installed, relaunched |-> relaunched]
NotPerformed == Performed("none", FALSE, FALSE)

\* What perform_update returns once start_extractor has returned (updater.py
\* lines 283-291): the result of the extractor is not looked at.
AfterExtractor(result) == "True"

\* The packages the Update Server hands out.
UpdaterPackages ==
    {[kind |-> k, ver |-> v] : k \in {"withMarker", "withSubdir", "noAnchor", "garbage",
                                      "traversal"},
                               v \in Versions}

\* zip_ref.extractall(dir) over what dir holds: the entries of the archive
\* replace the files of the same path, every other file stays.
ExtractedOver(dir, z) == [n \in Names |-> IF Entries(z)[n] # NoFile THEN Entries(z)[n] ELSE dir[n]]

\* The files of a directory tree, at every depth (os.walk).
FilesOf(dir) == {n \in Names : dir[n] # NoFile}

\* Updater.extract_update_package and Extractor.extract_update (updater.py
\* lines 165-178, extractor.py lines 24-37): the directory is created when it
\* is missing, then the archive is extracted into it; an archive that does not
\* open raises.
UpdaterExtract ==
    /\ updPc = "idle"
    /\ \E z \in UpdaterPackages :
          IF Extractable(z)
            THEN /\ tempDir' = ExtractedOver(tempDir, z)
                 /\ live' = ExtractedOutside(live, z)
                 /\ lastStaged' = z
                 /\ updPc' = "staged"
                 /\ performed' = NotPerformed
            ELSE /\ UNCHANGED <<tempDir, live, lastStaged, updPc>>
                 /\ performed' = Performed("False", FALSE, FALSE)
    /\ UNCHANGED <<flag, zip, staging, config, backup, latest>>
    /\ UNCHANGED <<supVars, agentVars, routerVars, hostsVars, manifestVars, metricsVars>>

\* Extractor.process_update (extractor.py lines 146-163): install_update moves
\* every file of the tree into the working directory (os.replace) and clean_up
\* removes the tree; an exception at file f, after the files of S were moved,
\* ends process_update before clean_up and before start_updater, and
\* process_update returns False. After clean_up, start_updater (lines 102-144)
\* launches the application, or finds no script or fails and returns False;
\* process_update drops that result and returns True (lines 157-159).
\* perform_update (updater.py lines 283-291) drops the result of
\* start_extractor and returns True.
ExtractorInstall ==
    /\ updPc = "staged"
    /\ \/ /\ live' = MovedLive(live, tempDir, FilesOf(tempDir))
          /\ tempDir' = EmptyDir
          /\ \E started \in BOOLEAN :
                performed' = Performed(AfterExtractor(started), TRUE, started)
       \/ \E f \in FilesOf(tempDir) :
          \E S \in SUBSET (FilesOf(tempDir) \ {f}) :
             /\ live' = MovedLive(live, tempDir, S)
             /\ tempDir' = MovedStaging(tempDir, S)
             /\ performed' = Performed(AfterExtractor(FALSE), FALSE, FALSE)
    /\ updPc' = "idle"
    /\ UNCHANGED <<flag, zip, staging, config, backup, latest, lastStaged,
                   supVars, agentVars, routerVars, hostsVars, manifestVars, metricsVars>>

----------------------------------------------------------------------------
(* Manifest and update check: src/update_system/updater.py, update_server.py *)

\* The hash file of the Updater (self.hash_file).
HashFile == "file_hashes.json"

\* The files of the updater's directory that the model follows: a program
\* file, a file in a subdirectory, a downloaded package, a cache file and the
\* hash file.
ScanPaths == {"updater.py", "lib/extractor.py", "agent_new.zip",
              "__pycache__/updater.pyc", HashFile}
AppPaths == ScanPaths \ {HashFile}

\* The directories on the way to a path, and its file name.
DirsOf(p) ==
    CASE p = "lib/extractor.py" -> {"lib"}
      [] p = "__pycache__/updater.pyc" -> {"__pycache__"}
      [] OTHER -> {}
BaseName(p) ==
    CASE p = "lib/extractor.py" -> "extractor.py"
      [] p = "__pycache__/updater.pyc" -> "updater.pyc"
      [] OTHER -> p

\* A file's bytes as the sequence of the 4096-byte blocks _get_file_hash
\* reads; the two contents differ in their second block.  No file: <<>>.
Contents == {<<"x", "x">>, <<"x", "y">>}
Absent == <<>>

\* Lines 93-94 of create_file_hash_table.
IgnoredDirs == {".git", "__pycache__", "agent_env", "update_temp"}
IgnoredFiles == {HashFile, "agent_new.zip", "updater_package.zip"}

\* Lines 96-105: the regular files os.walk reaches, without those under an
\* ignored directory and those with an ignored name.
Walked(t) ==
    {p \in ScanPaths : /\ t[p] # Absent
                       /\ DirsOf(p) \cap IgnoredDirs = {}
                       /\ BaseName(p) \notin IgnoredFiles}

\* The digest of the first block alone.
Sha256FirstBlock(c) == <<"sha256", <<c[1]>>>>

\* _get_file_hash, lines 128-134: SHA-256 over every block of the file; the
\* digest stands for the bytes it was computed from (no collision among the
\* contents of the model).
Sha256(c) == <<"sha256", c>>

\* The table of a scan that the first failed read ends: the walk reaches
\* updater.py before the files of the subdirectories, and no file after the
\* failure gets an entry.
HashTableStopsAtFailure(t, U) ==
    [p \in {q \in Walked(t) \ U : U = {} \/ q = "updater.py"} |-> Sha256(t[p])]

\* The table of a scan in which the reads of the paths of U raised (lines
\* 106-112): rel_path -> digest for every other walked file.
HashTable(t, U) == [p \in Walked(t) \ U |-> Sha256(t[p])]

\* json.dump(file_hashes, f): the text of the hash file.
Json(table) == <<"json", table>>

\* _check_first_run, lines 51-76: an essential file is missing, or there is
\* no hash file.
FirstRun(t, ess) == ~ess \/ t[HashFile] = Absent

NoManifest == [built |-> FALSE, table |-> <<>>]
NoResult == [available |-> FALSE, version |-> "", ref |-> "", full |-> FALSE,
             by |-> "unasked"]

\* What send_hash_table returns to check_for_updates, by the is_first_run sent:
\*   the update endpoint answers with a package: a delta, or (to a first run) a
\*   full package; it answers that there is no update; its answer has no
\*   version, or handling it raised (None);
\*   the request raised RequestException and _check_latest_version_fallback
\*   answered with the latest version's package, or raised (None).
ServerResponses(first) ==
    {[available |-> TRUE, version |-> "2", ref |-> "delta-2", full |-> FALSE,
      by |-> "update"],
     [available |-> FALSE, version |-> "1", ref |-> "", full |-> FALSE,
      by |-> "update"],
     [available |-> FALSE, version |-> "", ref |-> "", full |-> FALSE,
      by |-> "none"],
     [available |-> TRUE, version |-> "2", ref |-> "full-2", full |-> TRUE,
      by |-> "fallback"],
     [available |-> FALSE, version |-> "", ref |-> "", full |-> FALSE,
      by |-> "fallbackFailed"]}
        \cup (IF first
                THEN {[available |-> TRUE, version |-> "2", ref |-> "full-2", full |-> TRUE,
                       by |-> "update"]}
                ELSE {})

\* The application files whose bytes are not those the last scan found.
Changed == {p \in AppPaths : tree[p] # scanned[p]}

\* How the exchange with the server can end, and the one way it ends while
\* the server cannot be reached.
Answers == {"update", "none", "fallback", "fallbackFailed"}
Unreachable == {"fallbackFailed"}

\* Updater.check_for_updates, lines 228-255: create_file_hash_table scans the
\* directory (the reads of the paths of U raise), writes the table to the hash
\* file and returns it; send_hash_table_to_server exchanges it for a response,
\* the exchange ending in one of the ways of A.
CheckForUpdates(A) ==
    /\ \E U \in SUBSET Walked(tree) :
          /\ manifest' = [built |-> TRUE, table |-> HashTable(tree, U)]
          /\ tree' = [tree EXCEPT ![HashFile] = Json(HashTable(tree, U))]
          /\ scanned' = [p \in AppPaths |-> tree[p]]
          /\ failed' = U
          /\ changed' = Cardinality(Changed)
    /\ \E r \in ServerResponses(isFirstRun) : r.by \in A /\ checkResult' = r
    /\ UNCHANGED <<essential, isFirstRun>>
    /\ UNCHANGED <<fsVars, supVars, agentVars, routerVars, hostsVars, tempDir, updPc, lastStaged,
                   performed, metricsVars>>

\* Updater.__init__, line 45: a new Updater determines whether this is a first
\* run; it has asked the server nothing yet.
UpdaterNew ==
    /\ isFirstRun' = FirstRun(tree, essential)
    /\ checkResult' = NoResult
    /\ UNCHANGED <<tree, essential, manifest, scanned, failed, changed>>
    /\ UNCHANGED <<fsVars, supVars, agentVars, routerVars, hostsVars, tempDir, updPc, lastStaged,
                   performed, metricsVars>>

\* The bytes of one application file change.
FileEdit ==
    /\ \E p \in AppPaths : \E c \in Contents :
          /\ tree[p] # Absent
          /\ tree[p] # c
          /\ tree' = [tree EXCEPT ![p] = c]
    /\ UNCHANGED <<essential, isFirstRun, manifest, scanned, failed, changed, checkResult>>
    /\ UNCHANGED <<fsVars, supVars, agentVars, routerVars, hostsVars, tempDir, updPc, lastStaged,
                   performed, metricsVars>>

----------------------------------------------------------------------------
(* Specification *)

\* The installation as the installer leaves it: version 1 live, no ticket, no
\* package, the supervisor polling and the agent service just started.
InitEngine ==
    /\ flag = NoFile
    /\ zip = NoZip
    /\ live = InitialLive
    /\ staging = EmptyDir
    /\ backup = {}
    /\ config \in {NoFile, "ids"}
    /\ latest \in Versions
    /\ supPc = "poll"
    /\ target = ""
    /\ preLive = InitialLive
    /\ stoppedOk = FALSE
    /\ cycBackup = "none"
    /\ promoted = FALSE
    /\ outcome = "none"
    /\ starts = 0
    /\ gaveUp = FALSE
    /\ agentPc = "check"
    /\ cmdPc = "none"
    /\ cuPc = "idle"
    /\ cuTarget = ""
    /\ hbPc = "none"
    /\ lastStatus = "none"
    /\ cur = NoDelivery
    /\ acked = 0
    /\ reported = 0
    /\ returned = FALSE
    /\ pending = "none"
    /\ resultText = <<>>
    /\ handler = "none"
    /\ sent = NotSent
    /\ cmdRunning = TRUE
    /\ hbRunning = TRUE
    /\ conn = "none"

\* No call on the hosts file yet.
NoCall == [op |-> "none", urls |-> <<>>, ok |-> TRUE, msg |-> "none"]

\* The updater's directory after installation: program files, no hash file.
InstalledTree ==
    [p \in ScanPaths |-> IF p \in {"updater.py", "lib/extractor.py"} THEN <<"x", "x">> ELSE Absent]

\* The Updater has staged nothing yet, and has checked nothing.
InitUpdater ==
    /\ tempDir = EmptyDir
    /\ updPc = "idle"
    /\ lastStaged = NoZip
    /\ manifest = NoManifest
    /\ scanned = [p \in AppPaths |-> tree[p]]
    /\ failed = {}
    /\ changed = 0
    /\ checkResult = NoResult
    /\ isFirstRun = FirstRun(tree, essential)
    /\ performed = NotPerformed
    /\ InitCollector

\* The directories an Updater can be constructed in: updater.py and every set
\* of other files, with or without the hash file of an earlier scan of them.
TreeOf(app, withHashFile) ==
    LET t == [p \in ScanPaths |-> IF p = HashFile THEN Absent ELSE app[p]]
    IN  IF withHashFile THEN [t EXCEPT ![HashFile] = Json(HashTable(t, {}))] ELSE t

InitTree ==
    \E app \in [AppPaths -> Contents \cup {Absent}] :
    \E withHashFile \in BOOLEAN :
       /\ app["updater.py"] # Absent
       /\ tree = TreeOf(app, withHashFile)

Init ==
    /\ InitEngine
    /\ hosts = <<>>
    /\ lastCall = NoCall
    /\ prevCall = NoCall
    /\ tree = InstalledTree
    /\ essential = TRUE
    /\ InitUpdater

\* The update engine: supervisor and agent over the shared files, with UPDATE
\* commands arriving at the agent.
Next == Supervisor \/ Agent \/ Router(UpdateCommands) \/ ControllerPublish

Spec == Init /\ [][Next]_vars

\* The agent process alone: the command router under every kind of delivery
\* and broker failure, and the heartbeat thread.
NextRouter ==
    Agent \/ Router(AllMessages) \/ RouterConnectionLost \/ Heartbeat \/ ControllerPublish

SpecRouter == Init /\ [][NextRouter]_vars

\* The agent process with its two stop flags being cleared at any moment.
NextStop ==
    \/ Agent \/ Router(AllMessages) \/ RouterConnectionLost \/ Heartbeat
    \/ ListenerPollEnds \/ StopCommandListener \/ StopHeartbeat

SpecStop == Init /\ [][NextStop]_vars

\* The hosts-file handlers applied to every initial file.
InitHosts ==
    /\ InitEngine
    /\ hosts \in InitialHosts
    /\ lastCall = NoCall
    /\ prevCall = NoCall
    /\ tree = InstalledTree
    /\ essential = TRUE
    /\ InitUpdater

NextHosts == \E urls \in UrlLists : BlockWebsite(urls) \/ UnblockWebsite(urls)

SpecHosts == InitHosts /\ [][NextHosts]_vars

\* The Updater's staging and installation, one update after the other.
NextUpdater == UpdaterExtract \/ ExtractorInstall

SpecUpdater == Init /\ [][NextUpdater]_vars

\* The Updater's update check over every directory: checks and new Updater
\* objects.
InitCheck ==
    /\ InitEngine
    /\ config = "ids"
    /\ latest = "1"
    /\ hosts = <<>>
    /\ lastCall = NoCall
    /\ prevCall = NoCall
    /\ InitTree
    /\ essential \in BOOLEAN
    /\ InitUpdater

NextCheck == CheckForUpdates(Answers) \/ UpdaterNew

SpecCheck == InitCheck /\ [][NextCheck]_vars

\* The manifest over every directory: scans with the server out of reach, and
\* edits of the files in between.
NextManifest == CheckForUpdates(Unreachable) \/ FileEdit

InitManifest ==
    /\ InitEngine
    /\ config = "ids"
    /\ latest = "1"
    /\ hosts = <<>>
    /\ lastCall = NoCall
    /\ prevCall = NoCall
    /\ InitTree
    /\ essential = TRUE
    /\ InitUpdater

SpecManifest == InitManifest /\ [][NextManifest]_vars

\* A MetricsCollector whose stop() is called at any moment after start().
NextMetrics ==
    CollectorSend \/ CollectorWake \/ CollectorStopClear \/ CollectorStopOffline

SpecMetrics == InitManifest /\ [][NextMetrics]_vars

\* A supervisor step in which no command and no file operation fails that could
\* have succeeded: nssm stop and start return 0, and reading, extracting,
\* moving and removing files raise only where they must (extractall on an
\* archive with damaged data).
NoFault ==
    \/ outcome' \in {"none", "done", "missing", "invalid"}
    \/ outcome' = "extractFailed" /\ ~Extractable(zip) /\ supPc' # "handler"

\* The update engine without such failures.  The supervisor's loop never stops:
\* every iteration ends in time.sleep or continue and the next one begins.
NextInstall == (Supervisor /\ NoFault) \/ Agent \/ Router(UpdateCommands) \/ ControllerPublish

SpecInstall == Init /\ [][NextInstall]_vars /\ WF_vars(Supervisor /\ NoFault)

----------------------------------------------------------------------------
(* Properties of the update engine (Spec) *)

\* C1: the live tree changes, and apply_update_safely runs, only while the
\* service is stopped: nssm stop succeeded earlier in the same cycle, no start
\* succeeded since, and the agent process is down.  Only the supervisor's
\* version write, promotion and version check change live files, and only the
\* promotion changes a file other than the version marker.
C1_PromotionOnlyWhileStopped ==
    [][ /\ (live' # live \/ (supPc = "apply" /\ supPc' # supPc))
            => /\ stoppedOk
               /\ agentPc = "down"
               /\ supPc \in {"writeVersion", "apply", "verify"}
        /\ (\E n \in Names \ {"version.txt"} : live'[n] # live[n])
            => /\ supPc = "apply"
               /\ \A n \in Names : live'[n] # live[n] => live'[n] = staging[n]
      ]_vars

\* A promotion has moved the package's main.py into the live tree.
C1_Witness ==
    /\ supPc = "cleanup"
    /\ promoted
    /\ live["main.py"] = "2"
    /\ preLive["main.py"] = "1"

\* C2: when nssm stop fails in a cycle whose package validated, the cycle ends
\* with the ticket still present and every live file, the version marker
\* included, as it was when the cycle started.
C2_StopFailureKeepsTicketAndLive ==
    (supPc = "ended" /\ outcome = "stopFailed")
        => /\ flag # NoFile
           /\ live = preLive
           /\ ~promoted

C2_Witness ==
    /\ supPc = "ended"
    /\ outcome = "stopFailed"
    /\ flag = "2"
    /\ validate_zip_file(zip)

\* The package is missing, is no archive, or has no main.py entry.
Rejectable(z) == z = NoZip \/ ~WellFormed(z) \/ Entries(z)["main.py"] = NoFile

Corrupt(z) == z # NoZip /\ (~Extractable(z) \/ Entries(z)["main.py"] = NoFile)

\* C4: check_updates, holding a corrupt download, returns without creating the
\* ticket.
C4_NoTicketForCorruptArchive ==
    [][ (cuPc = "downloaded" /\ cuPc' # cuPc /\ Corrupt(zip))
            => (cuPc' = "idle" /\ flag' = flag)
      ]_vars

\* C5: a cycle that promoted a package ends with the version marker holding
\* the ticket's target version.
C5_MarkerIsTargetAfterPromotion ==
    (supPc = "ended" /\ promoted /\ target \in Versions) => live["version.txt"] = target

\* C6: after a backup, whenever the supervisor is about to start the service
\* again in a failed cycle, the live files have their pre-cycle content.
C6_RolledBackBeforeRestart ==
    (supPc \in {"abortStart", "handler"} /\ cycBackup # "none" /\ target \in Versions)
        => live = preLive

\* C7: install cycles start only with a ticket present, and the cycle that
\* promoted the package ends with the ticket removed.
C7_TicketConsumedByPromotion ==
    [][ /\ (supPc = "poll" /\ supPc' = "validate") => flag # NoFile
        /\ (promoted /\ target \in Versions /\ supPc # "ended" /\ supPc' = "ended")
               => flag' = NoFile
      ]_vars

----------------------------------------------------------------------------
(* Properties of the command router (SpecRouter) *)

\* command_callback is over for the delivery: it returned, or its thread ended.
CallbackOver == cur # NoDelivery /\ cmdPc \in {"idle", "dead"}

\* C8: once command_callback is over for a delivery, the delivery has been
\* acknowledged exactly once.
C8_AckedOncePerDelivery == CallbackOver => acked = 1

\* C9: a delivery is acknowledged only as the last step of its callback: never
\* while it is decoded, dispatched or reported, for a command only after
\* process_command returned, and not at all when the thread ended in the handler.
C9_AckOnlyAfterDispatch ==
    /\ acked > 0 => cmdPc \in {"idle", "stopped"}
    /\ (acked > 0 /\ cur.body = "dict") => returned
    /\ cmdPc \in {"decode", "process", "update", "report", "ack", "dead"} => acked = 0

\* A command whose handler failed was reported and then acknowledged.
C9_Witness ==
    /\ acked = 1
    /\ cur = Msg("dict", "FIREWALL_ON", "c1")
    /\ pending = "error"
    /\ reported = 1

\* C10: once command_callback is over for a command envelope, exactly one
\* CommandResult was attempted when its command_id is non-empty, none otherwise.
C10_OneResultPerCommand ==
    (CallbackOver /\ cur.body = "dict")
        => reported = (IF cur.id # "" THEN 1 ELSE 0)

\* The delivery is a command whose type, trimmed and upper-cased, is no known kind.
UnknownCommand ==
    /\ cur.body = "dict"
    /\ cur.type # "<number>"
    /\ TypeUpper(cur.type) \notin {"UPDATE", "FIREWALL_ON", "FIREWALL_OFF"}

Mentions(text, t) == \E i \in 1..Len(text) : text[i] = t

\* C11: a command of unknown type is a handled failure: its error text holds
\* the type string as received, one failure CommandResult is attempted when it
\* carries a command_id, the delivery is acknowledged, the command thread does
\* not end in the callback and the consume loop takes the next valid command.
C11_UnknownTypeIsHandledFailure ==
    UnknownCommand =>
        /\ cmdPc # "dead"
        /\ cmdPc \notin {"decode", "process"}
               => pending = "error" /\ Mentions(resultText, cur.type)
        /\ cmdPc \notin {"decode", "process", "report"}
               => returned /\ reported = (IF cur.id # "" THEN 1 ELSE 0)
        /\ cmdPc \notin {"decode", "process", "report", "ack"} => acked = 1
        /\ cmdPc = "idle" => ENABLED RouterDeliver({Msg("dict", "FIREWALL_ON", "c1")})

\* The command {"type": " foo", "command_id": "c1"} was reported and acknowledged.
C11_Witness ==
    /\ cur = Msg("dict", " foo", "c1")
    /\ cmdPc = "idle"
    /\ reported = 1
    /\ acked = 1
    /\ resultText = <<"Unknown command type: ", " foo">>

\* The delivery is an UPDATE command.
UpdateCommand ==
    /\ cur.body = "dict"
    /\ cur.type # "<number>"
    /\ TypeUpper(cur.type) = "UPDATE"

\* C12: the handler of an UPDATE command does not run the update itself: no
\* download or ticket write happens while the command is being handled, the
\* command thread never ends in it, and once the callback is over the result
\* "Update process initiated" was left, the delivery is acknowledged and the
\* consume loop takes the next command.
C12_UpdateHandledAsynchronously ==
    UpdateCommand =>
        /\ cmdPc # "dead"
        /\ cmdPc = "update" => cuPc = "idle"
        /\ CallbackOver
               => /\ pending = "output"
                  /\ resultText = <<"Update process initiated">>
                  /\ acked = 1
                  /\ ENABLED RouterDeliver({Msg("dict", "FIREWALL_ON", "c1")})

\* C13: while the agent process serves, neither loop has ended: the heartbeat
\* thread is sending or sleeping, and the command thread is in its consume
\* loop or in a callback of it.
C13_LoopsNeverTerminate ==
    agentPc = "serving"
        => /\ hbPc \in {"send", "sleep"}
           /\ cmdPc \in {"idle", "decode", "process", "update", "report", "ack"}

\* C15: a registration attempt never ends the agent process, and an update
\* check or download that is abandoned (check_updates returns to its caller
\* from the version request or from download_update) creates no ticket and
\* ends neither the process nor the calling thread.
C15_NetworkFailureNeverFatal ==
    [][ /\ AgentRegister => agentPc' = "serving"
        /\ ((CuStart \/ CuDownload) /\ cuPc' = "idle")
               => flag' = flag /\ agentPc' # "exited" /\ cmdPc' # "dead"
      ]_vars

\* C16: a cycle runs nssm start at most twice, and once a cycle that promoted
\* has ended with its last start failed, the supervisor runs no further start.
C16_RestartRetryIsBounded ==
    [][ /\ starts' <= 2
        /\ starts' > starts => ~gaveUp
      ]_vars

\* C17: a delivery whose body is no JSON never reaches process_command: no
\* handler runs and no CommandResult is attempted; the callback acknowledges
\* it, exactly once, before the consume loop goes on.
C17_NonJsonDroppedWithAck ==
    cur.body = "notjson" =>
        /\ cmdPc \in {"decode", "ack", "idle", "stopped"}
        /\ pending = "none" /\ resultText = <<>>
        /\ ~returned
        /\ reported = 0
        /\ acked = (IF cmdPc \in {"idle", "stopped"} THEN 1 ELSE 0)

C17_Witness ==
    /\ cur = Msg("notjson", "", "")
    /\ cmdPc = "idle"
    /\ acked = 1
    /\ reported = 0

----------------------------------------------------------------------------
(* End-to-end properties (SpecInstall) *)

\* The agent has written the ticket for version v next to a valid package of
\* version v, and the supervisor is at the head of its loop.
TicketWritten(v) ==
    /\ flag = v
    /\ zip.ver = v
    /\ validate_zip_file(zip)
    /\ Extractable(zip)
    /\ supPc = "poll"

\* The installation of version v is complete: no ticket, the marker holds v,
\* main.py is the package's, no file of the package was left behind in
\* staging, and the agent process runs.
Installed(v) ==
    /\ flag = NoFile
    /\ live["version.txt"] = v
    /\ live["main.py"] = v
    /\ \A n \in Names : staging[n] = NoFile
    /\ AgentAlive

\* C14: from a written ticket for version 2 with a valid package, with the
\* supervisor polling and no command failing, the system reaches a state in
\* which the ticket is gone, the marker holds 2, the package's files are live
\* and the agent runs again.
C14_TicketLeadsToInstalled == TicketWritten("2") ~> Installed("2")

----------------------------------------------------------------------------
(* Properties of the hosts-file handlers (SpecHosts) *)

\* The number of lines of content that are the entry of website u.
EntryCount(content, u) ==
    Cardinality({i \in 1..Len(ReadLines(content)) :
                    ReadLines(content)[i] \in {EntryLine(u), Entry(u)}})

\* C18: after two successive BLOCK_WEBSITE calls with the same single url the
\* hosts file holds exactly one entry line for that url, and both calls
\* returned success.
C18_BlockTwiceLeavesOneEntry ==
    \A u \in Urls :
        (/\ lastCall.op = "BLOCK" /\ lastCall.urls = <<u>>
         /\ prevCall.op = "BLOCK" /\ prevCall.urls = <<u>>)
            => EntryCount(hosts, u) = 1 /\ lastCall.ok /\ prevCall.ok

\* C19: UNBLOCK_WEBSITE for a url without an entry line in the hosts file
\* returns success and leaves the content of the file as it was.
C19_UnblockAbsentIsNoOp ==
    [][ \A u \in Urls :
            (UnblockWebsite(<<u>>) /\ EntryCount(hosts, u) = 0)
                => hosts' = hosts /\ lastCall'.ok
      ]_vars

----------------------------------------------------------------------------
(* Properties of staging (Spec, SpecUpdater) *)

\* The supervisor's staging: after extract_update_safely, update/ holds exactly
\* the entries of the package.
SupervisorStagingIsPackage == supPc = "writeVersion" => staging = Entries(zip)

\* C20: after the Updater has staged a package, its staging directory holds
\* exactly the entries of that package.
C20_StagingIsExactlyThePackage == updPc = "staged" => tempDir = Entries(lastStaged)

\* The archive has an entry whose name holds a parent-directory component.
HasTraversalEntry(z) == \E e \in NameList(z) : e \notin Names

\* Staging (extract_update_safely) wrote nothing outside update/: the live
\* tree, the ticket, the package, the configuration and the backups are as before.
SupervisorStagingFrame ==
    [][ (supPc = "extract" /\ supPc' # supPc)
            => UNCHANGED <<live, flag, zip, config, backup>>
      ]_vars

\* C21: staging a package changes no file of the live tree and no file outside
\* update/, and an entry whose name holds a traversal sequence is rejected:
\* nothing is staged for it.
C21_StagingRejectsTraversal ==
    [][ (supPc = "extract" /\ supPc' # supPc)
            => /\ UNCHANGED <<live, flag, zip, config, backup>>
               /\ \A e \in NameList(zip) \ Names : staging'[ExtractPath(e)] = NoFile
      ]_vars

\* The Extractor's staging (extract_update) under the same statement.
ExtractorStagingRejectsTraversal ==
    [][ (updPc = "idle" /\ updPc' = "staged")
            => /\ UNCHANGED <<live, flag, zip, config, backup>>
               /\ \A e \in NameList(lastStaged') \ Names : tempDir'[ExtractPath(e)] = NoFile
      ]_vars

----------------------------------------------------------------------------
(* Properties of promotion (Spec, SpecUpdater) *)

\* C22: when apply_update_safely succeeds, every staged file, at any directory
\* depth, is in the live tree at the same relative path with the staged
\* content, whatever was at that path before.
C22_PromotionMovesEveryStagedFile ==
    [][ (supPc = "apply" /\ promoted')
            => \A n \in Names : staging[n] # NoFile => live'[n] = staging[n]
      ]_vars

\* The Extractor's promotion (install_update) under the same statement: when
\* process_update succeeds, every staged file is live with the staged content.
ExtractorInstallMovesEveryFile ==
    [][ (updPc = "staged" /\ updPc' = "idle" /\ tempDir' = EmptyDir)
            => \A n \in Names : tempDir[n] # NoFile => live'[n] = tempDir[n]
      ]_vars

----------------------------------------------------------------------------
(* Properties of the update check (SpecCheck) *)

\* C23: an update check changes no persistent state: the files of the
\* updater's directory are the same after the call as before it, and so is
\* the first-run determination a newly constructed Updater would make.
C23_UpdateCheckLeavesNoTrace ==
    [][ CheckForUpdates(Answers)
            => /\ tree' = tree
               /\ FirstRun(tree', essential') = FirstRun(tree, essential)
      ]_vars

\* C24: an update check of an Updater that is not on its first run reports a
\* package as available only when the update endpoint answered with it, and
\* then a delta package; a failed update request yields no update.
C24_NoFullPackageWithoutFirstRun ==
    (checkResult.available /\ ~isFirstRun)
        => /\ checkResult.by = "update"
           /\ ~checkResult.full

----------------------------------------------------------------------------
(* Properties of the manifest (SpecManifest) *)

\* A step that changes no application file: under SpecManifest, a scan.
ScanStep == \A p \in AppPaths : tree'[p] = tree[p]

ExclusionSet == {"agent_new.zip", "__pycache__/updater.pyc"}

\* C26: after a scan in which reads failed, the scan has returned its table
\* and saved it; a file whose read failed has no entry, and every other file
\* that existed, outside the exclusion set, has the digest of its bytes.
C26_UnreadableFileOmitted ==
    failed # {} =>
        /\ manifest.built
        /\ tree[HashFile] = Json(manifest.table)
        /\ \A p \in AppPaths :
               p \in DOMAIN manifest.table
                   <=> (scanned[p] # Absent /\ p \notin failed /\ p \notin ExclusionSet)
        /\ \A p \in DOMAIN manifest.table : manifest.table[p] = Sha256(scanned[p])

\* The read of updater.py failed; lib/extractor.py has its entry.
C26_Witness ==
    /\ failed = {"updater.py"}
    /\ DOMAIN manifest.table = {"lib/extractor.py"}
    /\ scanned["updater.py"] # Absent

----------------------------------------------------------------------------
(* Broker topology and dispatch *)

\* The three ways a publication addresses this agent.
OwnOrigin(m) ==
    \/ m.exchange = "" /\ m.key = "mac1"
    \/ m.exchange = "cmd.direct" /\ m.key = "room.r1"
    \/ m.exchange = "broadcast.fanout"

\* C27: a command published to the default exchange with the machine identifier
\* as routing key, to cmd.direct with the key of the agent's own room, or to
\* broadcast.fanout can be delivered to the waiting consumer of the agent's
\* queue, and no other publication can (in particular no cmd.direct message
\* keyed for another room); whatever the origin, a FIREWALL_ON command runs
\* open_firewall and leaves its message, and an unknown type leaves the
\* unknown-type error.
C27_ThreeOriginsOneDispatch ==
    /\ (agentPc = "serving" /\ cmdPc = "idle") =>
          \A m \in Publications : OwnOrigin(m) <=> ENABLED RouterDeliver({m})
    /\ cur # NoDelivery => OwnOrigin(cur)
    /\ (cur \in Publications /\ handler # "none") =>
          IF cur.type = "FIREWALL_ON"
            THEN handler = "open_firewall" /\ resultText \in {<<"<handler message>">>, <<"">>}
            ELSE /\ handler = "unknown"
                 /\ pending = "error"
                 /\ resultText = <<"Unknown command type: ", cur.type>>

\* A FIREWALL_ON command published to cmd.direct for the agent's room has been
\* handled, reported and acknowledged.
C27_Witness ==
    /\ cur = Pub("cmd.direct", "room.r1", "dict", "FIREWALL_ON", "c1")
    /\ handler = "open_firewall"
    /\ reported = 1
    /\ acked = 1

\* The same command arriving as a broadcast whose routing key names another room.
BroadcastDispatched ==
    /\ cur = Pub("broadcast.fanout", "room.r2", "dict", "FIREWALL_ON", "c1")
    /\ handler = "open_firewall"
    /\ acked = 1

----------------------------------------------------------------------------
(* Cooperative stop of the two threads *)

\* The command thread is inside command_callback.
InCallback == cmdPc \in {"decode", "process", "update", "report", "ack"}

\* With its flag cleared the consume loop begins no poll: a thread that is not
\* waiting in process_data_events does not come back to it.
NoPollAfterStop == [][ (~cmdRunning /\ cmdPc # "idle") => cmdPc' # "idle" ]_vars

\* With its flag cleared the heartbeat loop makes one move only: it ends, after
\* the status being sent or the wait in progress.
HeartbeatEndsAfterStop ==
    [][ (~hbRunning /\ hbPc' # hbPc) => (hbPc \in {"send", "sleep"} /\ hbPc' = "ended") ]_vars

\* C28: once the running flag is cleared the consume loop begins no further
\* poll, and the command thread leaves the loop only with the broker
\* connection closed (or already lost); the heartbeat loop ends after the wait
\* in progress at most, without another status being sent.
C28_LoopsStopCooperatively ==
    [][ /\ (~cmdRunning /\ cmdPc # "idle") => cmdPc' # "idle"
        /\ (~cmdRunning' /\ agentPc' = "serving" /\ cmdPc' # "idle" /\ ~InCallback')
               => conn' \in {"closed", "lost"}
        /\ (~hbRunning /\ hbPc' # hbPc) => (hbPc \in {"send", "sleep"} /\ hbPc' = "ended")
      ]_vars

\* The flag was cleared during an UPDATE command, and sys.exit(0) ended the
\* command thread with the connection open.
StoppedWithOpenConnection ==
    /\ ~cmdRunning
    /\ cmdPc = "dead"
    /\ conn = "open"

\* The flag was cleared and the loop left in order: connection closed.
StoppedInOrder ==
    /\ ~cmdRunning
    /\ cmdPc = "returned"
    /\ conn = "closed"
    /\ hbPc = "ended"

----------------------------------------------------------------------------
(* Dispatch by command type *)

\* The known kinds among the types of the model, and for each the received
\* strings that differ from it in letter case or surrounding whitespace only.
KnownKinds == {"UPDATE", "FIREWALL_ON", "FIREWALL_OFF"}
VariantsOf(K) ==
    CASE K = "UPDATE" -> {"UPDATE", " update ", "Update"}
      [] K = "FIREWALL_ON" -> {"FIREWALL_ON", "firewall_on"}
      [] K = "FIREWALL_OFF" -> {"FIREWALL_OFF", " Firewall_Off"}

\* C29: a command whose type differs from a known kind K in letter case or
\* surrounding whitespace only is dispatched to the handler of K, which is
\* not the unknown-type branch.
C29_DispatchByNormalizedType ==
    handler # "none" =>
        \A K \in KnownKinds :
            cur.type \in VariantsOf(K) =>
                /\ handler = HandlerOf(TypeUpper(K))
                /\ handler # "unknown"

\* A padded, mixed-case FIREWALL_OFF has run close_firewall and was acknowledged.
C29_Witness ==
    /\ cur.type = " Firewall_Off"
    /\ handler = "close_firewall"
    /\ acked = 1

\* A padded lower-case update has reached check_updates.
PaddedUpdateDispatched ==
    /\ cur.type = " update "
    /\ handler = "check_updates"
    /\ cmdPc = "update"

----------------------------------------------------------------------------
(* Order of the steps of an install cycle *)

\* What holds when the last step of a cycle, nssm start, succeeds: the backup
\* was attempted, the service had been stopped, the files were promoted, ticket
\* and package are gone and the marker holds the target version.
SuccessfulCycleLeavesAllDone ==
    [][ (supPc = "start" /\ outcome' = "done" /\ target \in Versions)
            => /\ cycBackup # "none"
               /\ stoppedOk
               /\ promoted
               /\ flag = NoFile /\ zip = NoZip
               /\ live["version.txt"] = target
      ]_vars

\* C30: in a cycle that promoted the package the version marker is finalised
\* before the ticket is removed: at the step that removes the ticket the
\* marker, as promotion left it, holds the target version and is not written
\* afterwards.
C30_MarkerFinalisedBeforeTicketRemoved ==
    [][ /\ (promoted /\ target \in Versions /\ flag # NoFile /\ flag' = NoFile)
              => live["version.txt"] = target
        /\ (promoted /\ target \in Versions /\ flag = NoFile)
              => live'["version.txt"] = live["version.txt"]
      ]_vars

\* Ticket and package are removed while the marker still holds the value the
\* package shipped; the double-check has not run yet.
TicketRemovedBeforeMarkerVerified ==
    /\ supPc = "verify"
    /\ promoted
    /\ target = "2"
    /\ flag = NoFile
    /\ zip = NoZip
    /\ live["version.txt"] = PackagedMarker

----------------------------------------------------------------------------
(* Backup before promotion *)

\* C31: every promotion is preceded in its cycle by a run of create_backup,
\* which on success leaves the critical files that exist in the newest backup
\* directory, and a cycle whose backup failed goes on to stopping the service.
C31_BackupAttemptedBeforePromotion ==
    [][ /\ (supPc = "apply" /\ supPc' # supPc) => cycBackup # "none"
        /\ (supPc = "backup" /\ supPc' # supPc)
               => /\ cycBackup' \in {"ok", "failed"}
                  /\ cycBackup' = "ok" =>
                        /\ \A n \in {"main.py", "version.txt"} :
                              n \in backup' <=> live[n] # NoFile
                        /\ "agent_config.json" \in backup' <=> config # NoFile
                  /\ supPc' = "stop"
      ]_vars

\* A package was promoted in a cycle whose backup had failed.
C31_Witness ==
    /\ promoted
    /\ cycBackup = "failed"
    /\ live["main.py"] = "2"

----------------------------------------------------------------------------
(* Ticket creation by the agent *)

\* A ticket comes into being only in check_updates, after download_update
\* returned True for the checked version and with agent_new.zip non-empty, and
\* what check_updates writes into it is that version.
TicketOnlyAfterDownload ==
    [][ /\ (flag = NoFile /\ flag' # NoFile)
              => /\ cuPc = "downloaded"
                 /\ zip # NoZip /\ zip.kind # "empty" /\ zip.ver = cuTarget
        /\ (cuPc = "flagOpen" /\ cuPc' = "exit" /\ flag' # NoFile) => flag' = cuTarget
      ]_vars

\* C32: the ticket is created only after the package for the checked version
\* was downloaded as a non-empty file, its content is that version, and the
\* step after writing it ends the agent process, whichever thread ran the
\* check.
C32_TicketThenProcessExit ==
    [][ /\ (flag = NoFile /\ flag' # NoFile)
              => /\ cuPc = "downloaded"
                 /\ zip # NoZip /\ zip.kind # "empty" /\ zip.ver = cuTarget
        /\ (cuPc = "flagOpen" /\ cuPc' = "exit" /\ flag' # NoFile) => flag' = cuTarget
        /\ (cuPc = "exit" /\ cuPc' # cuPc /\ agentPc' # "down") => agentPc' = "exited"
      ]_vars

\* The ticket was written for an UPDATE command, the command thread has ended
\* and the process is still serving.
TicketWrittenProcessAlive ==
    /\ flag = "2"
    /\ cur.type = "UPDATE"
    /\ cmdPc = "dead"
    /\ agentPc = "serving"

----------------------------------------------------------------------------
(* No restart loop *)

----------------------------------------------------------------------------
(* Version marker and promotion *)

\* A cycle whose extraction failed has not touched the version marker.
ExtractFailureKeepsMarker ==
    (outcome = "extractFailed" /\ target \in Versions)
        => live["version.txt"] = preLive["version.txt"]

\* C34: in a cycle for target version V the marker holds V only once the
\* package was promoted, and a cycle whose extraction or promotion failed
\* leaves the marker as it was when the cycle started.
C34_MarkerOnlyAfterPromotion ==
    /\ (supPc \notin {"poll", "validate"} /\ target \in Versions
           /\ live["version.txt"] = target /\ preLive["version.txt"] # target)
          => promoted
    /\ (outcome \in {"extractFailed", "applyFailed"} /\ target \in Versions)
          => live["version.txt"] = preLive["version.txt"]

\* The promotion failed before any file was moved, and the marker already
\* holds the target version over the old main.py.
MarkerAheadOfFiles ==
    /\ outcome = "applyFailed"
    /\ target = "2"
    /\ live["version.txt"] = "2"
    /\ preLive["version.txt"] = "1"
    /\ live["main.py"] = "1"

----------------------------------------------------------------------------
(* Service start after the agent's exit *)

\* The agent process has exited and its ticket is in place.
ExitedWithTicket == agentPc = "exited" /\ flag \in Versions

\* C35: whenever the agent process has exited with its ticket written, the
\* supervisor eventually runs nssm start.
C35_ExitedAgentIsStarted == ExitedWithTicket ~> (starts > 0)

\* The supervisor has discarded the ticket of an invalid package and is back
\* at the head of its loop; the agent is gone and no start was issued.
DiscardedWithoutStart ==
    /\ supPc = "ended"
    /\ outcome = "invalid"
    /\ flag = NoFile
    /\ agentPc = "exited"
    /\ starts = 0

----------------------------------------------------------------------------
(* Reading the ticket *)

\* C36: the target version the supervisor reads from a ticket it found is a
\* complete version string, the one the agent wrote or is about to write.
C36_TicketReadWhole ==
    [][ (supPc = "poll" /\ supPc' = "validate")
            => /\ target' \in Versions
               /\ cuPc = "flagOpen" => target' = cuTarget
      ]_vars

\* The supervisor read the ticket between the agent's open and write, and has
\* written the empty target over the version marker.
EmptyTargetInstalled ==
    /\ target = ""
    /\ supPc = "apply"
    /\ live["version.txt"] = ""

----------------------------------------------------------------------------
(* Content of a CommandResult *)

\* C37: a CommandResult that was posted carries exactly one of output and
\* error: error when the handler failed, raised or the type was unknown,
\* output when the handler succeeded.
C37_ResultHasOutputOrError ==
    sent # NotSent =>
        /\ Cardinality(sent) = 1
        /\ sent = {"error"} <=>
               (pending = "error" \/ handler = "unknown" \/ cur.type = "<number>")
        /\ sent = {"output"} <=> (pending = "output" /\ handler \notin {"unknown", "none"})

\* A FIREWALL_ON command whose netsh printed nothing was reported with an
\* empty output.
C37_Witness ==
    /\ handler = "open_firewall"
    /\ pending = "output"
    /\ resultText = <<"">>
    /\ sent = {"output"}
    /\ reported = 1

\* A failed handler was reported with its error.
FailureReported ==
    /\ handler = "close_firewall"
    /\ pending = "error"
    /\ sent = {"error"}


----------------------------------------------------------------------------
(* MetricsCollector.stop against the heartbeat thread *)

\* The positions of the log at which stop() had returned.
StopMarks == {i \in 1..Len(mcLog) : mcLog[i] = StopReturned}

\* C38: after MetricsCollector.stop() has returned the collector publishes no
\* further "online" status, and the "offline" status that stop() published is
\* the last status message, whatever the heartbeat thread was doing when
\* stop() ran.
C38_OfflineIsLast ==
    \A i \in StopMarks :
        \A j \in 1..Len(mcLog) : (j > i) => mcLog[j] # "online"

\* The heartbeat had passed its test of self.running when stop() cleared the
\* flag; stop() published "offline" and returned, then the heartbeat published
\* "online".
OnlineAfterOffline ==
    \E i \in StopMarks :
        /\ i > 1 /\ mcLog[i - 1] = "offline"
        /\ i < Len(mcLog) /\ mcLog[i + 1] = "online"
        /\ mcPc = "ended"

----------------------------------------------------------------------------
(* What perform_update returns *)

\* C39: perform_update returns True only when the staged files were installed
\* and the application was relaunched; when extraction, installation or the
\* relaunch fails it returns False.
C39_TrueOnlyAfterInstallAndRelaunch ==
    /\ performed.ret = "True" => (performed.installed /\ performed.relaunched)
    /\ (performed.ret # "none" /\ ~(performed.installed /\ performed.relaunched))
           => performed.ret = "False"

\* A package that does not open makes perform_update return False.
ExtractionFailureReturnsFalse ==
    [][ (updPc = "idle" /\ updPc' = "idle" /\ performed' # performed)
            => performed'.ret = "False" ]_vars

\* The installation stopped at a file, part of the tree was moved, and
\* perform_update returned True.
TrueAfterPartialInstall ==
    /\ performed.ret = "True" /\ ~performed.installed
    /\ FilesOf(tempDir) # {}

\* The files were installed, no application was started, and perform_update
\* returned True.
TrueWithoutRelaunch ==
    performed.ret = "True" /\ performed.installed /\ ~performed.relaunched

----------------------------------------------------------------------------
(* BLOCK_WEBSITE over lists of urls (SpecHosts) *)

\* C40: after a successful BLOCK_WEBSITE(urls) every url of the list has
\* exactly one entry line "127.0.0.1 <url>" in the hosts file, for every list
\* of urls and every content the file had before.
C40_EveryUrlHasOneEntry ==
    (lastCall.op = "BLOCK" /\ lastCall.ok)
        => \A i \in 1..Len(lastCall.urls) : EntryCount(hosts, lastCall.urls[i]) = 1

\* A url that occurs twice in the list was written twice into a file that had
\* no entry for it.
ListedTwiceWrittenTwice ==
    /\ lastCall.op = "BLOCK" /\ lastCall.urls = <<UrlCo, UrlCo>> /\ prevCall = NoCall
    /\ hosts = EntryLine(UrlCo) \o EntryLine(UrlCo)

\* A url that is a prefix of a blocked url got no entry: the call reported
\* that all websites were already blocked.
PrefixOfBlockedNotWritten ==
    /\ lastCall.op = "BLOCK" /\ lastCall.urls = <<UrlCo>> /\ lastCall.ok
    /\ lastCall.msg = "All websites were already blocked"
    /\ hosts = EntryLine(UrlCom)

====
